---- MODULE Spec2Model ----
(***************************************************************************)
(* Model of librustc/mir/interpret/mod.rs: the allocation identity         *)
(* registry (AllocMap), the decoding-session counter and the concurrent,   *)
(* cycle-safe decoder of AllocIds (AllocDecodingSession::decode_alloc_id). *)
(***************************************************************************)
EXTENDS Integers, Sequences, FiniteSets, TLC

VARIABLES
    alloc_map,          \* tcx.alloc_map: [id_to_type, type_interner, next_id]
    fatal,              \* a bug!/assert!/unwrap panic has been raised
    last,               \* history: the last registry call and what it returned
    issued,             \* history: <<op, arg, id>> of the calls that returned an id
    unreserved,         \* history: a set_id_* call got an id reserve never returned
    log,                \* history: the registry calls of a run, in order
    DECODER_SESSION_ID, \* the process-wide AtomicU32, as two 16-bit limbs
    tokens,             \* history: the session tokens handed out, in order
    decoding_state,     \* AllocDecodingState.decoding_state: slot -> State
    session,            \* thread -> the session token it decodes with
    stack,              \* thread -> its stack of decode_alloc_id frames
    result,             \* thread -> outcome of its last top-level call
    calls,              \* number of top-level calls started
    returned,           \* history: slot -> the ids Ok-returned for that slot
    reservedFor,        \* history: slot -> the ids reserved at line 214 for it
    errs,               \* history: number of stream-format errors injected
    failed,             \* history: the sessions a stream-format error unwound
    input,              \* the arguments of the conversion under evaluation
    output,             \* its position and the value it has produced so far
    held,               \* thread -> the locks whose guard it holds
    at                  \* thread -> where it is between two lock operations

vars == <<alloc_map, fatal, last, issued, unreserved, log, DECODER_SESSION_ID,
          tokens, decoding_state, session, stack, result, calls, returned,
          reservedFor, errs, failed, input, output, held, at>>

registryVars == <<alloc_map, last, issued, unreserved, log>>
sessionVars  == <<DECODER_SESSION_ID, tokens>>
decoderVars  == <<decoding_state, session, stack, result, calls, returned,
                  reservedFor, errs, failed>>
pureVars     == <<input, output>>
lockVars     == <<held, at>>

(***************************************************************************)
(* Bounds of the model.                                                    *)
(***************************************************************************)
MaxIds      == 3    \* identifiers a run of the registry issues
MaxOps      == 4    \* id-returning calls in a logged run of the registry
MaxTokens   == 6    \* sessions created in one run of the session counter
NThreads    == 2    \* decoding threads
MaxSessions == 3    \* sessions created in one run of the decoder
MaxCalls    == 3    \* top-level decode_alloc_id calls in one run
MaxErrs     == 1    \* stream-format errors injected in one run
MaxStream   == 5    \* words of an encoded Lock handed to its decoder
MaxWord     == 3    \* largest word of such a stream

(***************************************************************************)
(* Maps (FxHashMap) as functions with a finite domain.                     *)
(***************************************************************************)
EmptyMap == [k \in {} |-> 0]

\* HashMap::insert: binds k to v, replacing what was there.
MapInsert(map, k, v) ==
    [x \in (DOMAIN map) \cup {k} |-> IF x = k THEN v ELSE map[x]]

(***************************************************************************)
(* AllocType<'tcx, M> (lines 294-303). The payload is always a sequence of *)
(* naturals: <<instance>>, <<def id>>, or the memory's content.            *)
(***************************************************************************)
Function(instance) == [tag |-> "Function", v |-> <<instance>>]

Static(did) == [tag |-> "Static", v |-> <<did>>]

Memory(mem) == [tag |-> "Memory", v |-> mem]

\* Option::None, for AllocMap::get and for the decoder's alloc_id.
None == [tag |-> "None", v |-> <<>>]

(***************************************************************************)
(* AllocMap (lines 305-388). An operation maps the registry to             *)
(* [am: the registry after it, ret: what it returns, bug: it panicked].    *)
(***************************************************************************)
AllocMap_new == [id_to_type |-> EmptyMap, type_interner |-> EmptyMap, next_id |-> 0]

\* As reserve, but the counter is not advanced.
reserve_reuse(am) == [am |-> am, ret |-> am.next_id, bug |-> FALSE]

\* next_id is a u64 and checked_add(1) panics at 2^64 - 1; the runs here
\* start at AllocMap::new() and stay far below it.
reserve(am) ==
    [am |-> [am EXCEPT !.next_id = @ + 1], ret |-> am.next_id, bug |-> FALSE]

\* As intern, but without the lookup in type_interner.
intern_fresh(am, alloc_type) ==
    LET r == reserve(am)
    IN  [am  |-> [r.am EXCEPT !.id_to_type = MapInsert(@, r.ret, alloc_type),
                              !.type_interner = MapInsert(@, alloc_type, r.ret)],
         ret |-> r.ret,
         bug |-> r.bug]

intern(am, alloc_type) ==
    IF alloc_type \in DOMAIN am.type_interner
    THEN [am |-> am, ret |-> am.type_interner[alloc_type], bug |-> FALSE]
    ELSE LET r == reserve(am)
         IN  [am  |-> [r.am EXCEPT
                          !.id_to_type = MapInsert(@, r.ret, alloc_type),
                          !.type_interner = MapInsert(@, alloc_type, r.ret)],
              ret |-> r.ret,
              bug |-> r.bug]

create_fn_alloc(am, instance) == intern(am, Function(instance))

intern_static(am, static_id) == intern(am, Static(static_id))

get(am, id) ==
    IF id \in DOMAIN am.id_to_type THEN am.id_to_type[id] ELSE None

\* As set_id_memory, but without the bug! on an old value.
set_id_memory_silent(am, id, mem) ==
    [am  |-> [am EXCEPT !.id_to_type = MapInsert(@, id, Memory(mem))],
     bug |-> FALSE]

\* HashMap::insert runs first and replaces the entry; the bug! follows when
\* insert returned an old value.
set_id_memory(am, id, mem) ==
    [am  |-> [am EXCEPT !.id_to_type = MapInsert(@, id, Memory(mem))],
     bug |-> id \in DOMAIN am.id_to_type]

\* As allocate, but the memory goes through the interner.
allocate_interned(am, mem) ==
    LET r == intern(am, Memory(mem))
    IN  [am |-> r.am, ret |-> r.ret, bug |-> r.bug]

allocate(am, mem) ==
    LET r == reserve(am)
        s == set_id_memory(r.am, r.ret, mem)
    IN  [am |-> s.am, ret |-> r.ret, bug |-> r.bug \/ s.bug]

\* HashMapExt::insert_same (rustc_data_structures::sync): binds k when it is
\* unbound; a bound k must already hold an equal value, else the call is an
\* internal-consistency error.
insert_same(map, k, v) ==
    IF k \in DOMAIN map
    THEN [map |-> map, bug |-> map[k] # v]
    ELSE [map |-> MapInsert(map, k, v), bug |-> FALSE]

\* As set_id_same_memory, but with insert in place of insert_same.
set_id_same_memory_strict(am, id, mem) == set_id_memory(am, id, mem)

set_id_same_memory(am, id, mem) ==
    LET r == insert_same(am.id_to_type, id, Memory(mem))
    IN  [am |-> [am EXCEPT !.id_to_type = r.map], bug |-> r.bug]

(***************************************************************************)
(* The session counter (lines 150-161). A u32 is kept as two 16-bit limbs, *)
(* value = hi * 2^16 + lo, so that its arithmetic keeps the 32-bit width.  *)
(***************************************************************************)
Limb == 2^16

U32(hi, lo) == [hi |-> hi, lo |-> lo]

\* u32 wrapping increment: AtomicU32::fetch_add(1) wraps around on overflow.
wrapping_inc(x) ==
    IF x.lo + 1 < Limb THEN U32(x.hi, x.lo + 1)
    ELSE IF x.hi + 1 < Limb THEN U32(x.hi + 1, 0)
    ELSE U32(0, 0)

\* x & 0x7FFFFFFF: clears bit 31, the top bit of the high limb.
and_7FFFFFFF(x) == U32(x.hi % (2^15), x.lo)

\* As new_decoding_session, but without the & 0x7FFFFFFF.
new_decoding_session_nomask(counter) ==
    [counter    |-> wrapping_inc(counter),
     session_id |-> wrapping_inc(counter),
     bug        |-> wrapping_inc(counter) = U32(0, 0)]

\* [counter: the counter after fetch_add, session_id: the token,
\*  bug: NonZeroU32::new gave None and unwrap() panicked].
new_decoding_session(counter) ==
    [counter    |-> wrapping_inc(counter),
     session_id |-> wrapping_inc(and_7FFFFFFF(counter)),
     bug        |-> wrapping_inc(and_7FFFFFFF(counter)) = U32(0, 0)]

(***************************************************************************)
(* Inputs of the registry calls.                                           *)
(***************************************************************************)
Instances == {3, 7}         \* function instances (fn#3, fn#7)

DefIds == {7, 8}            \* static items (item#7, item#8)

Mems == {<<10>>, <<11>>}    \* memory contents (two different blobs)

NoCall == [op |-> "none", arg |-> <<>>, ret |-> <<>>, old |-> None, got |-> None]

\* The record of one call: arg its arguments, ret <<id>> when it returned an
\* id, old the binding its id argument had before the call, got what get
\* returned.
Call(op, arg, ret, old, got) ==
    [op |-> op, arg |-> arg, ret |-> ret, old |-> old, got |-> got]

(***************************************************************************)
(* The registry's operations as actions. r is the outcome of the call on   *)
(* alloc_map; a call that panics returns nothing.                          *)
(***************************************************************************)
Issue(op, arg, r) ==
    /\ ~fatal
    /\ r.am.next_id <= MaxIds
    /\ alloc_map' = r.am
    /\ fatal' = r.bug
    /\ last' = Call(op, arg, IF r.bug THEN <<>> ELSE <<r.ret>>, None, None)
    /\ issued' = IF r.bug THEN issued ELSE issued \cup {<<op, arg, r.ret>>}
    /\ UNCHANGED unreserved

Bind(op, id, mem, r) ==
    /\ ~fatal
    /\ alloc_map' = r.am
    /\ fatal' = r.bug
    /\ last' = Call(op, <<id>> \o mem, <<>>, get(alloc_map, id), None)
    /\ unreserved' = (unreserved \/ <<"reserve", <<>>, id>> \notin issued)
    /\ UNCHANGED issued

Reserve == Issue("reserve", <<>>, reserve(alloc_map))

Allocate == \E mem \in Mems : Issue("allocate", mem, allocate(alloc_map, mem))

CreateFnAlloc ==
    \E instance \in Instances :
        Issue("create_fn_alloc", <<instance>>, create_fn_alloc(alloc_map, instance))

InternStatic ==
    \E did \in DefIds :
        Issue("intern_static", <<did>>, intern_static(alloc_map, did))

\* The caller passes an id it holds: a reserved one, or (a caller's slip) the
\* first id not reserved yet.
SetIdMemory ==
    \E id \in 0..alloc_map.next_id, mem \in Mems :
        Bind("set_id_memory", id, mem, set_id_memory(alloc_map, id, mem))

SetIdSameMemory ==
    \E id \in 0..alloc_map.next_id, mem \in Mems :
        Bind("set_id_same_memory", id, mem, set_id_same_memory(alloc_map, id, mem))

Get ==
    \E id \in 0..(MaxIds + 2) :
        /\ ~fatal
        /\ last' = Call("get", <<id>>, <<>>, None, get(alloc_map, id))
        /\ UNCHANGED <<alloc_map, fatal, issued, unreserved>>

(***************************************************************************)
(* The decoder's state (lines 133-146). A State keeps the same fields in   *)
(* every variant; an absent AllocId is <<>>, a present one <<id>>.         *)
(***************************************************************************)
Threads == 1..NThreads

NoSession == U32(0, 0)      \* no NonZeroU32 token is zero

Empty == [tag |-> "Empty", sessions |-> <<>>, id |-> <<>>]

InProgressNonAlloc(sessions) ==
    [tag |-> "InProgressNonAlloc", sessions |-> sessions, id |-> <<>>]

InProgress(sessions, alloc_id) ==
    [tag |-> "InProgress", sessions |-> sessions, id |-> <<alloc_id>>]

Done(alloc_id) == [tag |-> "Done", sessions |-> <<>>, id |-> <<alloc_id>>]

\* TinyList (rustc_data_structures::tiny_list): new_single, contains, insert.
new_single(x) == <<x>>

contains(list, x) == \E i \in 1..Len(list) : list[i] = x

insert(list, x) == Append(list, x)

(***************************************************************************)
(* The stream being decoded: one record per slot. An Alloc body holds its  *)
(* bytes and the slots its relocations point to; slots 0 and 1 reference   *)
(* each other. A Fn body is an instance, a Static body an item id.         *)
(***************************************************************************)
Stream ==
    (0 :> [kind |-> "Alloc", body |-> <<10>>, refs |-> <<1, 2>>]) @@
    (1 :> [kind |-> "Alloc", body |-> <<11>>, refs |-> <<0, 3>>]) @@
    (2 :> [kind |-> "Fn", body |-> <<3>>, refs |-> <<>>]) @@
    (3 :> [kind |-> "Static", body |-> <<7>>, refs |-> <<>>])

Slots == DOMAIN Stream

(***************************************************************************)
(* decode_alloc_id, lines 201-249: the slot's critical section.            *)
(* out is "return" (return Ok(alloc_id) at once), "decode" (go on to the   *)
(* body with alloc_id) or "bug" (bug!).                                    *)
(***************************************************************************)
state_done(entry, am) ==
    [entry |-> entry, am |-> am, out |-> "return", alloc_id |-> entry.id]

\* As state_empty, but no id is reserved ahead of reading an Alloc body.
state_empty_noreserve(alloc_kind, session_id, am) ==
    [entry    |-> InProgressNonAlloc(new_single(session_id)),
     am       |-> am,
     out      |-> "decode",
     alloc_id |-> <<>>]

state_empty(alloc_kind, session_id, am) ==
    IF alloc_kind = "Alloc"
    THEN LET r == reserve(am)
         IN  [entry    |-> InProgress(new_single(session_id), r.ret),
              am       |-> r.am,
              out      |-> IF r.bug THEN "bug" ELSE "decode",
              alloc_id |-> <<r.ret>>]
    ELSE [entry    |-> InProgressNonAlloc(new_single(session_id)),
          am       |-> am,
          out      |-> "decode",
          alloc_id |-> <<>>]

\* As state_in_progress_non_alloc, but an arriving session is not recorded.
state_in_progress_non_alloc_unlisted(entry, session_id, am) ==
    IF contains(entry.sessions, session_id)
    THEN [entry |-> entry, am |-> am, out |-> "bug", alloc_id |-> <<>>]
    ELSE [entry |-> entry, am |-> am, out |-> "decode", alloc_id |-> <<>>]

\* As state_in_progress_non_alloc, but a session that finds its own token
\* starts the slot over with a list of its own.
state_in_progress_non_alloc_reset(entry, session_id, am) ==
    IF contains(entry.sessions, session_id)
    THEN [entry    |-> InProgressNonAlloc(new_single(session_id)),
          am       |-> am,
          out      |-> "decode",
          alloc_id |-> <<>>]
    ELSE [entry    |-> InProgressNonAlloc(insert(entry.sessions, session_id)),
          am       |-> am,
          out      |-> "decode",
          alloc_id |-> <<>>]

state_in_progress_non_alloc(entry, session_id, am) ==
    IF contains(entry.sessions, session_id)
    THEN [entry |-> entry, am |-> am, out |-> "bug", alloc_id |-> <<>>]
    ELSE [entry    |-> InProgressNonAlloc(insert(entry.sessions, session_id)),
          am       |-> am,
          out      |-> "decode",
          alloc_id |-> <<>>]

\* As state_in_progress, but an arrival never reuses the id of the slot: it
\* reserves one of its own.
state_in_progress_rereserve(entry, session_id, am) ==
    LET r == reserve(am)
    IN  IF contains(entry.sessions, session_id)
        THEN [entry |-> entry, am |-> r.am, out |-> "return", alloc_id |-> <<r.ret>>]
        ELSE [entry    |-> InProgress(insert(entry.sessions, session_id), r.ret),
              am       |-> r.am,
              out      |-> "decode",
              alloc_id |-> <<r.ret>>]

\* As state_in_progress, but every arrival is handed the reserved id and
\* leaves the decode of the body to the sessions already listed.
state_in_progress_trust(entry, session_id, am) ==
    [entry |-> entry, am |-> am, out |-> "return", alloc_id |-> entry.id]

\* As state_in_progress, but a session that finds its own token decodes the
\* body again.
state_in_progress_reenter(entry, session_id, am) ==
    [entry    |-> InProgress(insert(entry.sessions, session_id), entry.id[1]),
     am       |-> am,
     out      |-> "decode",
     alloc_id |-> entry.id]

state_in_progress(entry, session_id, am) ==
    IF contains(entry.sessions, session_id)
    THEN [entry |-> entry, am |-> am, out |-> "return", alloc_id |-> entry.id]
    ELSE [entry    |-> InProgress(insert(entry.sessions, session_id), entry.id[1]),
          am       |-> am,
          out      |-> "decode",
          alloc_id |-> entry.id]

check_state(entry, alloc_kind, session_id, am) ==
    CASE entry.tag = "Done" -> state_done(entry, am)
      [] entry.tag = "Empty" -> state_empty(alloc_kind, session_id, am)
      [] entry.tag = "InProgressNonAlloc" ->
            state_in_progress_non_alloc(entry, session_id, am)
      [] entry.tag = "InProgress" -> state_in_progress(entry, session_id, am)

(***************************************************************************)
(* decode_alloc_id, lines 252-278: the body has been read (relocs are the  *)
(* ids its nested decode_alloc_id calls returned); bind or intern it.      *)
(***************************************************************************)
\* As decode_data, but the Alloc arm returns the reserved id without
\* binding the decoded allocation to it.
decode_data_unbound(alloc_kind, alloc_id, body, relocs, am) ==
    CASE alloc_kind = "Alloc" ->
            IF alloc_id = <<>>
            THEN [am |-> am, ret |-> 0, bug |-> TRUE]
            ELSE [am |-> am, ret |-> alloc_id[1], bug |-> FALSE]
      [] alloc_kind = "Fn" ->
            IF alloc_id # <<>>
            THEN [am |-> am, ret |-> 0, bug |-> TRUE]
            ELSE create_fn_alloc(am, body[1])
      [] alloc_kind = "Static" ->
            IF alloc_id # <<>>
            THEN [am |-> am, ret |-> 0, bug |-> TRUE]
            ELSE intern_static(am, body[1])

decode_data(alloc_kind, alloc_id, body, relocs, am) ==
    CASE alloc_kind = "Alloc" ->
            IF alloc_id = <<>>
            THEN [am |-> am, ret |-> 0, bug |-> TRUE]
            ELSE LET r == set_id_same_memory(am, alloc_id[1], body \o relocs)
                 IN  [am |-> r.am, ret |-> alloc_id[1], bug |-> r.bug]
      [] alloc_kind = "Fn" ->
            IF alloc_id # <<>>
            THEN [am |-> am, ret |-> 0, bug |-> TRUE]
            ELSE create_fn_alloc(am, body[1])
      [] alloc_kind = "Static" ->
            IF alloc_id # <<>>
            THEN [am |-> am, ret |-> 0, bug |-> TRUE]
            ELSE intern_static(am, body[1])

(***************************************************************************)
(* Threads. A frame is one activation of decode_alloc_id past its critical *)
(* section: pc "body" while it reads the body, "store" once the id is      *)
(* known and Done is still to be written.                                  *)
(***************************************************************************)
Frame(idx, alloc_id) ==
    [idx |-> idx, alloc_id |-> alloc_id, relocs |-> <<>>, pc |-> "body", id |-> <<>>]

Idle == [tag |-> "Idle", idx |-> 0, id |-> <<>>]

Pending(idx) == [tag |-> "Pending", idx |-> idx, id |-> <<>>]

Ok(idx, alloc_id) == [tag |-> "Ok", idx |-> idx, id |-> <<alloc_id>>]

Err(idx) == [tag |-> "Err", idx |-> idx, id |-> <<>>]

Top(stk) == stk[Len(stk)]

Pop(stk) == SubSeq(stk, 1, Len(stk) - 1)

\* A thread's position between two lock operations of decode_alloc_id: the
\* line it is at and the slot the call is on.
At(pc, idx) == [pc |-> pc, idx |-> idx]

\* It is not inside any statement that takes a lock.
Outside == At("out", 0)

\* decode_alloc_id on slot idx returns Ok(alloc_id) to the caller whose
\* frames are stk: the enclosing body decode, or the thread's top level.
Return(t, stk, idx, alloc_id) ==
    /\ returned' = [returned EXCEPT ![idx] = @ \cup {alloc_id}]
    /\ IF stk = <<>>
       THEN /\ stack' = [stack EXCEPT ![t] = <<>>]
            /\ result' = [result EXCEPT ![t] = Ok(idx, alloc_id)]
       ELSE /\ stack' = [stack EXCEPT ![t] =
                            Append(Pop(stk),
                                   [Top(stk) EXCEPT !.relocs = Append(@, alloc_id)])]
            /\ UNCHANGED result

\* Lines 189-249 of a call on slot idx made by thread t.
Enter(t, idx) ==
    LET r == check_state(decoding_state[idx], Stream[idx].kind, session[t], alloc_map)
    IN  /\ decoding_state' = [decoding_state EXCEPT ![idx] = r.entry]
        /\ alloc_map' = r.am
        /\ fatal' = (r.out = "bug")
        /\ reservedFor' =
              [reservedFor EXCEPT ![idx] =
                  @ \cup {i \in 0..r.am.next_id : alloc_map.next_id <= i /\ i < r.am.next_id}]
        /\ CASE r.out = "return" -> Return(t, stack[t], idx, r.alloc_id[1])
             [] r.out = "decode" ->
                    /\ stack' = [stack EXCEPT ![t] = Append(@, Frame(idx, r.alloc_id))]
                    /\ result' = IF stack[t] = <<>>
                                 THEN [result EXCEPT ![t] = Pending(idx)]
                                 ELSE result
                    /\ UNCHANGED returned
             [] r.out = "bug" -> UNCHANGED <<stack, result, returned>>

DecoderFrame == UNCHANGED <<last, issued, unreserved, log, pureVars>>

\* new_decoding_session, called by a thread that is not inside a decode.
NewSession(t) ==
    /\ ~fatal
    /\ stack[t] = <<>>
    /\ Len(tokens) < MaxSessions
    /\ LET s == new_decoding_session(DECODER_SESSION_ID)
       IN  /\ DECODER_SESSION_ID' = s.counter
           /\ fatal' = s.bug
           /\ IF s.bug
              THEN UNCHANGED <<session, tokens>>
              ELSE /\ session' = [session EXCEPT ![t] = s.session_id]
                   /\ tokens' = Append(tokens, s.session_id)
    /\ UNCHANGED <<alloc_map, decoding_state, stack, result, calls, returned,
                   reservedFor, errs, failed>>
    /\ DecoderFrame

\* A top-level call: the thread's decoder reads the index of some slot.
DecodeTop(t) ==
    \E idx \in Slots :
        /\ ~fatal
        /\ session[t] # NoSession
        /\ stack[t] = <<>>
        /\ calls < MaxCalls
        /\ calls' = calls + 1
        /\ Enter(t, idx)
        /\ UNCHANGED <<sessionVars, session, errs, failed>>
        /\ DecoderFrame

\* A nested call: decoding an Alloc body reaches its next relocation.
DecodeNested(t) ==
    /\ ~fatal
    /\ stack[t] # <<>>
    /\ LET f == Top(stack[t])
       IN  /\ f.pc = "body"
           /\ Len(f.relocs) < Len(Stream[f.idx].refs)
           /\ Enter(t, Stream[f.idx].refs[Len(f.relocs) + 1])
    /\ UNCHANGED <<sessionVars, session, calls, errs, failed>>
    /\ DecoderFrame

\* Lines 252-278 once the whole body has been read.
DecodeData(t) ==
    /\ ~fatal
    /\ stack[t] # <<>>
    /\ LET f == Top(stack[t])
           r == decode_data(Stream[f.idx].kind, f.alloc_id, Stream[f.idx].body,
                            f.relocs, alloc_map)
       IN  /\ f.pc = "body"
           /\ Len(f.relocs) = Len(Stream[f.idx].refs)
           /\ alloc_map' = r.am
           /\ fatal' = r.bug
           /\ stack' = [stack EXCEPT ![t] =
                           IF r.bug THEN @
                           ELSE Append(Pop(@), [f EXCEPT !.pc = "store", !.id = <<r.ret>>])]
    /\ UNCHANGED <<sessionVars, decoding_state, session, result, calls, returned,
                   reservedFor, errs, failed>>
    /\ DecoderFrame

\* Lines 280-284: write Done(alloc_id) under the slot's lock and return.
StoreDone(t) ==
    /\ ~fatal
    /\ stack[t] # <<>>
    /\ LET f == Top(stack[t])
       IN  /\ f.pc = "store"
           /\ decoding_state' = [decoding_state EXCEPT ![f.idx] = Done(f.id[1])]
           /\ Return(t, Pop(stack[t]), f.idx, f.id[1])
    /\ UNCHANGED <<alloc_map, fatal, sessionVars, session, calls, reservedFor, errs,
                   failed>>
    /\ DecoderFrame

\* As StreamError, but the slots of the unwound frames are reset to Empty.
StreamError_rollback(t) ==
    /\ ~fatal
    /\ stack[t] # <<>>
    /\ Top(stack[t]).pc = "body"
    /\ errs < MaxErrs
    /\ errs' = errs + 1
    /\ failed' = failed \cup {session[t]}
    /\ stack' = [stack EXCEPT ![t] = <<>>]
    /\ result' = [result EXCEPT ![t] = Err(stack[t][1].idx)]
    /\ decoding_state' =
          [idx \in Slots |->
              IF \E i \in 1..Len(stack[t]) : stack[t][i].idx = idx
              THEN Empty ELSE decoding_state[idx]]
    /\ UNCHANGED <<alloc_map, fatal, sessionVars, session, calls,
                   returned, reservedFor>>
    /\ DecoderFrame

\* A stream-format error while a body is read: the ? operators unwind every
\* frame of the thread and its top-level call returns Err.
StreamError(t) ==
    /\ ~fatal
    /\ stack[t] # <<>>
    /\ Top(stack[t]).pc = "body"
    /\ errs < MaxErrs
    /\ errs' = errs + 1
    /\ failed' = failed \cup {session[t]}
    /\ stack' = [stack EXCEPT ![t] = <<>>]
    /\ result' = [result EXCEPT ![t] = Err(stack[t][1].idx)]
    /\ UNCHANGED <<alloc_map, fatal, sessionVars, decoding_state, session, calls,
                   returned, reservedFor>>
    /\ DecoderFrame

(***************************************************************************)
(* Initial states.                                                         *)
(***************************************************************************)
InitRegistry ==
    /\ alloc_map = AllocMap_new
    /\ fatal = FALSE
    /\ last = NoCall
    /\ issued = {}
    /\ unreserved = FALSE
    /\ log = <<>>

(***************************************************************************)
(* SpecReg: any sequence of calls on one registry.                         *)
(***************************************************************************)
\* AllocDecodingState::new: every slot Empty; no thread has a session yet.
InitDecoder ==
    /\ decoding_state = [idx \in Slots |-> Empty]
    /\ session = [t \in Threads |-> NoSession]
    /\ stack = [t \in Threads |-> <<>>]
    /\ result = [t \in Threads |-> Idle]
    /\ calls = 0
    /\ returned = [idx \in Slots |-> {}]
    /\ reservedFor = [idx \in Slots |-> {}]
    /\ errs = 0
    /\ failed = {}
    /\ held = [t \in Threads |-> {}]
    /\ at = [t \in Threads |-> Outside]

\* No conversion is under evaluation.
InitPure ==
    /\ input = <<>>
    /\ output = <<>>

InitReg ==
    /\ InitRegistry
    /\ InitDecoder
    /\ InitPure
    /\ DECODER_SESSION_ID = U32(0, 0)
    /\ tokens = <<>>

RegFrame == UNCHANGED <<log, sessionVars, decoderVars, pureVars, lockVars>>

NextReg ==
    \/ Reserve /\ RegFrame
    \/ Allocate /\ RegFrame
    \/ CreateFnAlloc /\ RegFrame
    \/ InternStatic /\ RegFrame
    \/ SetIdMemory /\ RegFrame
    \/ SetIdSameMemory /\ RegFrame
    \/ Get /\ RegFrame

SpecReg == InitReg /\ [][NextReg]_vars

(***************************************************************************)
(* SpecLog: a fresh registry, the id-returning calls and get, every call   *)
(* logged in order.                                                        *)
(***************************************************************************)
Logged == Len(log) < MaxOps /\ log' = Append(log, last')

LogFrame == UNCHANGED <<sessionVars, decoderVars, pureVars, lockVars>>

NextLog ==
    \/ Reserve /\ Logged /\ LogFrame
    \/ Allocate /\ Logged /\ LogFrame
    \/ CreateFnAlloc /\ Logged /\ LogFrame
    \/ InternStatic /\ Logged /\ LogFrame
    \/ Get /\ UNCHANGED log /\ LogFrame

SpecLog == InitReg /\ [][NextLog]_vars

(***************************************************************************)
(* Spec: threads decoding one stream through one AllocDecodingState and    *)
(* one registry.                                                           *)
(***************************************************************************)
Init == InitReg

\* Each action below is one critical section taken whole: which thread
\* holds which lock between two of them is left to SpecFine.
Atomic == UNCHANGED lockVars

Next ==
    \E t \in Threads :
        \/ NewSession(t) /\ Atomic
        \/ DecodeTop(t) /\ Atomic
        \/ DecodeNested(t) /\ Atomic
        \/ DecodeData(t) /\ Atomic
        \/ StoreDone(t) /\ Atomic
        \/ StreamError(t) /\ Atomic

Spec == Init /\ [][Next]_vars

(***************************************************************************)
(* SpecSeq: the decodes of a well-formed stream made one after the other,  *)
(* by the same or by new sessions. A thread inside decode_alloc_id never   *)
(* waits (a slot's lock and the registry's lock are held for one critical  *)
(* section only), so it keeps taking steps: weak fairness per thread.      *)
(***************************************************************************)
SeqDecodeTop(t) ==
    /\ \A u \in Threads : stack[u] = <<>>
    /\ DecodeTop(t)

NextSeq ==
    \E t \in Threads :
        \/ NewSession(t) /\ Atomic
        \/ SeqDecodeTop(t) /\ Atomic
        \/ DecodeNested(t) /\ Atomic
        \/ DecodeData(t) /\ Atomic
        \/ StoreDone(t) /\ Atomic

Running(t) == (DecodeNested(t) \/ DecodeData(t) \/ StoreDone(t)) /\ Atomic

SpecSeq == Init /\ [][NextSeq]_vars /\ \A t \in Threads : WF_vars(Running(t))

\* Spec under the same scheduling: a thread inside decode_alloc_id keeps
\* taking steps, whatever the other threads do.
SpecFair == Spec /\ \A t \in Threads : WF_vars(Running(t))

(***************************************************************************)
(* SpecFine: decode_alloc_id with its lock operations as steps of their    *)
(* own. decoding_state[idx].lock() (line 202) returns a guard that lives   *)
(* to the end of the block (line 249) or to the return inside it;          *)
(* alloc_map.lock() (lines 214, 259, 267, 274) returns a temporary guard   *)
(* dropped at the end of its statement; with_lock (line 280) holds the     *)
(* slot's lock for its closure. A lock held by any thread, the caller      *)
(* included, makes lock() wait. Every thread has its session before the    *)
(* run; the stream is well formed.                                         *)
(***************************************************************************)
SlotLock(idx) == <<"decoding_state", idx>>

AllocMapLock == <<"alloc_map", 0>>

Free(l) == \A u \in Threads : l \notin held[u]

\* Lock::lock by thread t.
lock(t, l) ==
    /\ Free(l)
    /\ held' = [held EXCEPT ![t] = @ \cup {l}]

\* As drop_guard, but the guard outlives the block.
drop_guard_leak(guards, l) == guards

\* The guard of l goes out of scope.
drop_guard(guards, l) == guards \ {l}

Goto(t, pc, idx) == at' = [at EXCEPT ![t] = At(pc, idx)]

FineFrame ==
    UNCHANGED <<last, issued, unreserved, log, pureVars, sessionVars, session,
                errs, failed>>

Untouched ==
    UNCHANGED <<alloc_map, fatal, decoding_state, stack, result, returned,
                reservedFor>>

\* Lines 189-197 of a top-level call: the index of some slot is read.
FineDecodeTop(t) ==
    \E idx \in Slots :
        /\ ~fatal
        /\ stack[t] = <<>>
        /\ at[t] = Outside
        /\ calls < MaxCalls
        /\ calls' = calls + 1
        /\ Goto(t, "lock_entry", idx)
        /\ UNCHANGED held
        /\ Untouched
        /\ FineFrame

\* Lines 189-197 of a nested call made from the body of the top frame.
FineDecodeNested(t) ==
    /\ ~fatal
    /\ stack[t] # <<>>
    /\ at[t] = Outside
    /\ LET f == Top(stack[t])
       IN  /\ f.pc = "body"
           /\ Len(f.relocs) < Len(Stream[f.idx].refs)
           /\ Goto(t, "lock_entry", Stream[f.idx].refs[Len(f.relocs) + 1])
    /\ UNCHANGED <<held, calls>>
    /\ Untouched
    /\ FineFrame

\* Line 202: let mut entry = self.state.decoding_state[idx].lock().
LockEntry(t) ==
    /\ ~fatal
    /\ at[t].pc = "lock_entry"
    /\ lock(t, SlotLock(at[t].idx))
    /\ Goto(t, "match", at[t].idx)
    /\ UNCHANGED calls
    /\ Untouched
    /\ FineFrame

\* Lines 204-248 but for the arm that reserves: the match on *entry, then
\* the guard is dropped by the return or at the end of the block.
Match(t) ==
    /\ ~fatal
    /\ at[t].pc = "match"
    /\ ~(decoding_state[at[t].idx].tag = "Empty" /\ Stream[at[t].idx].kind = "Alloc")
    /\ Enter(t, at[t].idx)
    /\ held' = [held EXCEPT ![t] = drop_guard(@, SlotLock(at[t].idx))]
    /\ Goto(t, "out", 0)
    /\ UNCHANGED calls
    /\ FineFrame

\* Lines 208-214: State::Empty of an Alloc record reaches alloc_map.lock().
MatchEmptyAlloc(t) ==
    /\ ~fatal
    /\ at[t].pc = "match"
    /\ decoding_state[at[t].idx].tag = "Empty"
    /\ Stream[at[t].idx].kind = "Alloc"
    /\ Goto(t, "lock_alloc_map", at[t].idx)
    /\ UNCHANGED <<held, calls>>
    /\ Untouched
    /\ FineFrame

\* Line 214: self.state.tcx.alloc_map.lock(), the slot's guard still held.
LockAllocMap(t) ==
    /\ ~fatal
    /\ at[t].pc = "lock_alloc_map"
    /\ lock(t, AllocMapLock)
    /\ Goto(t, "reserve", at[t].idx)
    /\ UNCHANGED calls
    /\ Untouched
    /\ FineFrame

\* Lines 214-219 and 249: reserve(), the temporary guard is dropped, the
\* entry becomes InProgress and the block ends.
ReserveEntry(t) ==
    /\ ~fatal
    /\ at[t].pc = "reserve"
    /\ Enter(t, at[t].idx)
    /\ held' = [held EXCEPT ![t] =
                   drop_guard(drop_guard(@, AllocMapLock), SlotLock(at[t].idx))]
    /\ Goto(t, "out", 0)
    /\ UNCHANGED calls
    /\ FineFrame

\* Lines 259, 267, 274: the body has been read; alloc_map.lock().
LockAllocMapData(t) ==
    /\ ~fatal
    /\ stack[t] # <<>>
    /\ at[t] = Outside
    /\ LET f == Top(stack[t])
       IN  /\ f.pc = "body"
           /\ Len(f.relocs) = Len(Stream[f.idx].refs)
           /\ Goto(t, "data", f.idx)
    /\ lock(t, AllocMapLock)
    /\ UNCHANGED calls
    /\ Untouched
    /\ FineFrame

\* Lines 252-278: the registry call; its temporary guard is dropped.
FineDecodeData(t) ==
    /\ at[t].pc = "data"
    /\ DecodeData(t)
    /\ held' = [held EXCEPT ![t] = drop_guard(@, AllocMapLock)]
    /\ Goto(t, IF fatal' THEN "out" ELSE "with_lock", IF fatal' THEN 0 ELSE at[t].idx)

\* Line 280: with_lock takes the slot's lock.
LockStore(t) ==
    /\ ~fatal
    /\ at[t].pc = "with_lock"
    /\ lock(t, SlotLock(at[t].idx))
    /\ Goto(t, "store", at[t].idx)
    /\ UNCHANGED calls
    /\ Untouched
    /\ FineFrame

\* Lines 280-284: *entry = State::Done(alloc_id); the lock is released.
FineStoreDone(t) ==
    /\ at[t].pc = "store"
    /\ StoreDone(t)
    /\ held' = [held EXCEPT ![t] = drop_guard(@, SlotLock(at[t].idx))]
    /\ Goto(t, "out", 0)

\* Thread t holds the t-th session of the process.
InitFine ==
    /\ InitRegistry
    /\ InitPure
    /\ decoding_state = [idx \in Slots |-> Empty]
    /\ DECODER_SESSION_ID = U32(0, NThreads)
    /\ tokens = [t \in Threads |-> U32(0, t)]
    /\ session = [t \in Threads |-> U32(0, t)]
    /\ stack = [t \in Threads |-> <<>>]
    /\ result = [t \in Threads |-> Idle]
    /\ calls = 0
    /\ returned = [idx \in Slots |-> {}]
    /\ reservedFor = [idx \in Slots |-> {}]
    /\ errs = 0
    /\ failed = {}
    /\ held = [t \in Threads |-> {}]
    /\ at = [t \in Threads |-> Outside]

FineRunning(t) ==
    \/ FineDecodeNested(t)
    \/ LockEntry(t)
    \/ Match(t)
    \/ MatchEmptyAlloc(t)
    \/ LockAllocMap(t)
    \/ ReserveEntry(t)
    \/ LockAllocMapData(t)
    \/ FineDecodeData(t)
    \/ LockStore(t)
    \/ FineStoreDone(t)

NextFine ==
    \E t \in Threads :
        \/ FineDecodeTop(t)
        \/ FineDecodeNested(t)
        \/ LockEntry(t)
        \/ Match(t)
        \/ MatchEmptyAlloc(t)
        \/ LockAllocMap(t)
        \/ ReserveEntry(t)
        \/ LockAllocMapData(t)
        \/ FineDecodeData(t)
        \/ LockStore(t)
        \/ FineStoreDone(t)

\* A thread that can take a step is scheduled, and a lock that is free is
\* granted to a thread waiting for it: weak fairness per thread.
SpecFine == InitFine /\ [][NextFine]_vars /\ \A t \in Threads : WF_vars(FineRunning(t))

(***************************************************************************)
(* SpecSession: the session counter alone, started at the values around    *)
(* which its bit 31 and its wrap-around come into play.                    *)
(***************************************************************************)
CounterStarts ==
    {U32(0, 0), U32(2^15 - 1, Limb - 3), U32(2^15, Limb - 3), U32(Limb - 1, Limb - 3)}

InitSession ==
    /\ InitRegistry
    /\ InitDecoder
    /\ InitPure
    /\ DECODER_SESSION_ID \in CounterStarts
    /\ tokens = <<>>

TakeSession(t) ==
    /\ ~fatal
    /\ Len(tokens) < MaxTokens
    /\ LET s == new_decoding_session(DECODER_SESSION_ID)
       IN  /\ DECODER_SESSION_ID' = s.counter
           /\ fatal' = s.bug
           /\ IF s.bug
              THEN UNCHANGED <<session, tokens>>
              ELSE /\ session' = [session EXCEPT ![t] = s.session_id]
                   /\ tokens' = Append(tokens, s.session_id)
    /\ UNCHANGED <<registryVars, decoding_state, stack, result, calls, returned,
                   reservedFor, errs, failed, pureVars, lockVars>>

NextSession == \E t \in Threads : TakeSession(t)

SpecSession == InitSession /\ [][NextSession]_vars

(***************************************************************************)
(* sign_extend and truncate (lines 417-431). A u128 is the set of the      *)
(* positions of its 1 bits, so that the 128-bit width of every shift is    *)
(* kept; size is the number of bits size.bits() returns.                   *)
(***************************************************************************)
Bits == 128

BitPos == 0..(Bits - 1)

\* value << shift on u128: the bits shifted past position 127 are lost.
shl(value, shift) == {i + shift : i \in value} \cap BitPos

\* value >> shift on u128: zeroes enter from the left.
shr(value, shift) == {i - shift : i \in {j \in value : j >= shift}}

\* value >> shift on i128: copies of bit 127 enter from the left.
sar(value, shift) ==
    shr(value, shift)
        \cup (IF (Bits - 1) \in value THEN {i \in BitPos : i >= Bits - shift} ELSE {})

sign_extend(value, size) ==
    LET shift == Bits - size
    IN  sar(shl(value, shift), shift)

\* As truncate, without the shift back to the right.
truncate_left(value, size) ==
    LET shift == Bits - size
    IN  shl(value, shift)

truncate(value, size) ==
    LET shift == Bits - size
    IN  shr(shl(value, shift), shift)

\* The widths sign_extend and truncate shift by without overflow.
Widths == 1..Bits

\* Values below 2^size: zero, one, the sign bit alone, all ones, all ones
\* but the sign bit, the sign bit and bit 0, and the two alternating patterns.
Values(size) ==
    LET low == 0..(size - 1)
    IN  { {}, {0}, {size - 1}, low, low \ {size - 1}, {0, size - 1},
          {i \in low : i % 2 = 0}, {i \in low : i % 2 = 1},
          {i \in low : i >= size - 2} }

InitBits ==
    /\ InitRegistry
    /\ InitDecoder
    /\ DECODER_SESSION_ID = U32(0, 0)
    /\ tokens = <<>>
    /\ \E size \in Widths : \E value \in Values(size) :
          input = [value |-> value, size |-> size]
    /\ output = [pc |-> "start", extended |-> {}, value |-> {}]

BitsFrame ==
    UNCHANGED <<registryVars, fatal, sessionVars, decoderVars, lockVars, input>>

SignExtend ==
    /\ output.pc = "start"
    /\ output' = [pc |-> "extended",
                  extended |-> sign_extend(input.value, input.size),
                  value |-> {}]
    /\ BitsFrame

Truncate ==
    /\ output.pc = "extended"
    /\ output' = [output EXCEPT !.pc = "truncated",
                                !.value = truncate(output.extended, input.size)]
    /\ BitsFrame

NextBits == SignExtend \/ Truncate

SpecBits == InitBits /\ [][NextBits]_vars

(***************************************************************************)
(* Lock and DynamicLifetime (lines 54-67) and the decoder their            *)
(* RustcDecodable derive gives them: the variant index, then the fields    *)
(* of the variant in order; a Vec as its length followed by its elements,  *)
(* an Option as 0 or as 1 followed by the value. The stream is a sequence  *)
(* of words; a region::Scope is one word.                                  *)
(***************************************************************************)
NoLock == [tag |-> "NoLock", v |-> <<>>]

WriteLock(lifetime) == [tag |-> "WriteLock", v |-> <<lifetime>>]

ReadLock(lifetimes) == [tag |-> "ReadLock", v |-> lifetimes]

DynamicLifetime(frame, region) == [frame |-> frame, region |-> region]

\* Result<T, D::Error> of a read: the value and the stream after it.
Read(value, rest) == [ok |-> TRUE, value |-> <<value>>, rest |-> rest]

ReadErr == [ok |-> FALSE, value |-> <<>>, rest |-> <<>>]

read_usize(stream) ==
    IF stream = <<>> THEN ReadErr ELSE Read(Head(stream), Tail(stream))

\* Option<region::Scope>: <<>> is None, <<scope>> is Some(scope).
decode_Option(stream) ==
    LET disr == read_usize(stream)
    IN  IF ~disr.ok THEN ReadErr
        ELSE IF disr.value[1] = 0 THEN Read(<<>>, disr.rest)
        ELSE IF disr.value[1] = 1
             THEN LET scope == read_usize(disr.rest)
                  IN  IF scope.ok THEN Read(scope.value, scope.rest) ELSE ReadErr
        ELSE ReadErr

decode_DynamicLifetime(stream) ==
    LET frame == read_usize(stream)
    IN  IF ~frame.ok THEN ReadErr
        ELSE LET region == decode_Option(frame.rest)
             IN  IF ~region.ok THEN ReadErr
                 ELSE Read(DynamicLifetime(frame.value[1], region.value[1]),
                           region.rest)

RECURSIVE decode_elements(_, _, _)
\* The len elements of a Vec<DynamicLifetime>, pushed onto vec in order.
decode_elements(stream, len, vec) ==
    IF len = 0 THEN Read(vec, stream)
    ELSE LET e == decode_DynamicLifetime(stream)
         IN  IF ~e.ok THEN ReadErr
             ELSE decode_elements(e.rest, len - 1, Append(vec, e.value[1]))

decode_Vec(stream) ==
    LET len == read_usize(stream)
    IN  IF ~len.ok THEN ReadErr
        ELSE decode_elements(len.rest, len.value[1], <<>>)

\* <Lock as Decodable>::decode.
decode_Lock(stream) ==
    LET disr == read_usize(stream)
    IN  IF ~disr.ok THEN ReadErr
        ELSE IF disr.value[1] = 0 THEN Read(NoLock, disr.rest)
        ELSE IF disr.value[1] = 1
             THEN LET lft == decode_DynamicLifetime(disr.rest)
                  IN  IF lft.ok THEN Read(WriteLock(lft.value[1]), lft.rest)
                      ELSE ReadErr
        ELSE IF disr.value[1] = 2
             THEN LET lfts == decode_Vec(disr.rest)
                  IN  IF lfts.ok THEN Read(ReadLock(lfts.value[1]), lfts.rest)
                      ELSE ReadErr
        ELSE ReadErr

Words == 0..MaxWord

LockStreams == UNION {[1..n -> Words] : n \in 0..MaxStream}

InitLock ==
    /\ InitRegistry
    /\ InitDecoder
    /\ DECODER_SESSION_ID = U32(0, 0)
    /\ tokens = <<>>
    /\ input \in LockStreams
    /\ output = [pc |-> "start", lock |-> <<>>]

LockFrame ==
    UNCHANGED <<registryVars, fatal, sessionVars, decoderVars, lockVars, input>>

\* Lock::decode on the stream: Ok(lock), or Err(..) when the stream ends
\* early or holds no variant at a tag.
DecodeLock ==
    /\ output.pc = "start"
    /\ LET r == decode_Lock(input)
       IN  output' = IF r.ok THEN [pc |-> "Ok", lock |-> r.value]
                     ELSE [pc |-> "Err", lock |-> <<>>]
    /\ LockFrame

NextLock == DecodeLock

SpecLock == InitLock /\ [][NextLock]_vars

(***************************************************************************)
(* Claims about the decoder.                                               *)
(***************************************************************************)
Frames(t) == {stack[t][i] : i \in 1..Len(stack[t])}

\* C1: for any sessions and any interleaving of their decode_alloc_id calls,
\* every call that returns Ok for the same slot returns the same AllocId,
\* and once the slot is Done that id is the id Done holds.
C1_OneIdPerSlot ==
    \A idx \in Slots :
        /\ Cardinality(returned[idx]) <= 1
        /\ decoding_state[idx].tag = "Done" =>
              returned[idx] \subseteq {decoding_state[idx].id[1]}

\* Two sessions decoded the body of the same slot concurrently: one has
\* written Done and returned the id from its top-level call, the other is
\* about to write Done with the same id.
C1_Witness ==
    \E t \in Threads, u \in Threads :
        /\ t # u
        /\ session[t] # session[u]
        /\ result[t].tag = "Ok"
        /\ stack[u] # <<>>
        /\ Top(stack[u]).pc = "store"
        /\ Top(stack[u]).idx = result[t].idx
        /\ Top(stack[u]).id = result[t].id
        /\ decoding_state[result[t].idx] = Done(result[t].id[1])

\* The id a slot's state holds; <<>> while it holds none.
SlotId(idx) == decoding_state[idx].id

CycleSlots == {0, 1}    \* the two Alloc slots that reference each other

\* The ids the already decoded relocations of a frame must have resolved to.
Resolved(f) ==
    \A k \in 1..Len(f.relocs) : <<f.relocs[k]>> = SlotId(Stream[f.idx].refs[k])

\* The ids a slot's state holds: none or one.
IdSet(idx) == {SlotId(idx)[i] : i \in 1..Len(SlotId(idx))}

\* alloc_type is the memory of Alloc slot idx: its bytes followed by the ids
\* held by the slots its relocations point to.
IsMemoryOf(alloc_type, idx) ==
    LET body == Stream[idx].body
        refs == Stream[idx].refs
    IN  /\ alloc_type.tag = "Memory"
        /\ Len(alloc_type.v) = Len(body) + Len(refs)
        /\ \A k \in 1..Len(body) : alloc_type.v[k] = body[k]
        /\ \A k \in 1..Len(refs) : <<alloc_type.v[Len(body) + k]>> = SlotId(refs[k])

ClaimedAllocSlots ==
    {idx \in Slots : Stream[idx].kind = "Alloc" /\ decoding_state[idx].tag # "Empty"}

C2_CycleSafe ==
    /\ ~fatal
    /\ \A t \in Threads : \A f \in Frames(t) : Resolved(f)
    /\ \A idx \in CycleSlots :
          /\ decoding_state[idx].tag # "Empty" =>
                (IdSet(idx) # {} /\ reservedFor[idx] = IdSet(idx))
          /\ decoding_state[idx].tag = "Done" =>
                \A id \in IdSet(idx) : IsMemoryOf(get(alloc_map, id), idx)
    /\ \A t \in Threads :
          (result[t].tag = "Ok" /\ result[t].idx \in CycleSlots) =>
              (result[t].id = SlotId(result[t].idx) /\ decoding_state[result[t].idx].tag = "Done")
    /\ alloc_map.next_id =
          Cardinality(ClaimedAllocSlots) + Cardinality(DOMAIN alloc_map.type_interner)

\* C2: with slots 0 (A) and 1 (B) referencing each other, a session's decode
\* of A terminates and returns an id; every relocation, the one from B back
\* to A included, resolves to the id reserved for the slot it points to; a
\* later decode of B, by the same or a new session, returns the id B was
\* given during A's decode, and no id is reserved beyond one per claimed
\* Alloc slot and one per interned content.
C2_CycleDecode ==
    /\ []C2_CycleSafe
    /\ \A t \in Threads :
          (result[t].tag = "Pending") ~> (result[t].tag = "Ok")

\* A was decoded first (it holds the first id, 0) and B inside A's decode
\* (id 1); a later top-level call on B, made with the second session, has
\* returned id 1, and A's memory points to B's id and B's memory to A's.
C2_Witness ==
    /\ reservedFor[0] = {0}
    /\ reservedFor[1] = {1}
    /\ decoding_state[0] = Done(0)
    /\ calls >= 2
    /\ Len(tokens) = 2
    /\ \E t \in Threads : session[t] = tokens[2] /\ result[t] = Ok(1, 1)
    /\ get(alloc_map, 0).v[2] = 1
    /\ get(alloc_map, 1).v[2] = 0

Rank(st) ==
    CASE st.tag = "Empty" -> 0
      [] st.tag \in {"InProgress", "InProgressNonAlloc"} -> 1
      [] st.tag = "Done" -> 2

\* A slot's state st may become nx.
Forward(st, nx) ==
    /\ Rank(st) <= Rank(nx)
    /\ Rank(st) = 1 /\ Rank(nx) = 1 => (st.tag = nx.tag /\ st.id = nx.id)
    /\ st.tag = "Done" => nx = st

\* C3: in every execution, failed decodes included, a slot's state only
\* moves forward Empty -> InProgress or InProgressNonAlloc -> Done: never
\* back to Empty, never between InProgress and InProgressNonAlloc, the id in
\* InProgress never changes, and Done(id) stays Done(id).
C3_ForwardOnly ==
    [][\A idx \in Slots : Forward(decoding_state[idx], decoding_state'[idx])]_vars

\* A decode failed and left a slot in progress with no thread working on it,
\* another slot has reached Done, and another top-level call has returned
\* an id.
C3_Witness ==
    /\ errs = 1
    /\ \A t \in Threads : stack[t] = <<>>
    /\ \E idx \in Slots : decoding_state[idx].tag \in {"InProgress", "InProgressNonAlloc"}
    /\ \E idx \in Slots : decoding_state[idx].tag = "Done"
    /\ \E t \in Threads : result[t].tag = "Ok"
    /\ \E t \in Threads : result[t].tag = "Err"

\* C4: at most one id is ever reserved for a Memory-tagged slot: the call
\* that finds it Empty reserves it before the body is read, and every later
\* arrival, whatever its session, decodes with the id stored in the slot.
C4_OneReservePerSlot ==
    \A idx \in Slots :
        /\ Cardinality(reservedFor[idx]) <= 1
        /\ Stream[idx].kind = "Alloc" =>
              /\ reservedFor[idx] = IdSet(idx)
              /\ \A t \in Threads : \A f \in Frames(t) :
                    f.idx = idx => f.alloc_id = SlotId(idx)
        /\ Stream[idx].kind # "Alloc" => reservedFor[idx] = {}

\* Two sessions are inside the body of the same Alloc slot at once, both
\* holding the one id reserved for it.
C4_Witness ==
    \E t \in Threads, u \in Threads : \E idx \in Slots :
        /\ t # u
        /\ Stream[idx].kind = "Alloc"
        /\ decoding_state[idx].tag = "InProgress"
        /\ Len(decoding_state[idx].sessions) = 2
        /\ \E f \in Frames(t) : f.idx = idx /\ f.pc = "body" /\ f.alloc_id = SlotId(idx)
        /\ \E f \in Frames(u) : f.idx = idx /\ f.pc = "body" /\ f.alloc_id = SlotId(idx)
        /\ Cardinality(reservedFor[idx]) = 1

(***************************************************************************)
(* Claims about the registry.                                              *)
(***************************************************************************)
InternOps == {"create_fn_alloc", "intern_static"}

\* C5: create_fn_alloc called with the same instance always returns the same
\* AllocId, intern_static called with the same item id always returns the
\* same AllocId, and calls with different content (another instance, another
\* item id, a function versus a static) return pairwise distinct AllocIds.
C5_InternedIdentity ==
    \A x \in issued, y \in issued :
        (x[1] \in InternOps /\ y[1] \in InternOps) =>
            ((x[1] = y[1] /\ x[2] = y[2]) <=> (x[3] = y[3]))

\* Function(7), Static(7) and Static(8) each hold their own id, other calls
\* came in between, and the last call asked again for the content interned
\* first and got id 0 again.
C5_Witness ==
    /\ ~fatal
    /\ {<<"create_fn_alloc", <<7>>>>, <<"intern_static", <<7>>>>, <<"intern_static", <<8>>>>}
          \subseteq {<<x[1], x[2]>> : x \in issued}
    /\ last.op \in InternOps
    /\ last.ret = <<0>>
    /\ alloc_map.next_id = 3

\* C6: every id returned by reserve or by allocate differs from every id a
\* registry call returned before, so two allocate calls with identical
\* content return two distinct ids, and an id returned by reserve is greater
\* than every id reserve returned before.
C6_FreshIds ==
    [][(last'.op \in {"reserve", "allocate"} /\ last'.ret # <<>>) =>
          /\ \A x \in issued : x[3] # last'.ret[1]
          /\ last'.op = "reserve" =>
                \A x \in issued : x[1] = "reserve" => x[3] < last'.ret[1]]_vars

\* allocate has returned two ids for the same content, after a reserve.
C6_Witness ==
    /\ ~fatal
    /\ \E x \in issued, y \in issued :
          /\ x[1] = "allocate" /\ y[1] = "allocate"
          /\ x[2] = y[2] /\ x[3] # y[3]
    /\ \E x \in issued : x[1] = "reserve"
    /\ last.op = "reserve"

\* C7, as claimed: set_id_memory on an id that is already bound is a fatal
\* error and the forward map still holds the old binding of that id.
C7_OldBindingKept ==
    (last.op = "set_id_memory" /\ last.old # None) =>
        (fatal /\ get(alloc_map, last.arg[1]) = last.old)

\* C7, amended: set_id_memory on an id that is already bound always ends in
\* the fatal error, raised after the forward map's entry for the id has been
\* replaced by Memory(memory); a call that ends without a fatal error never
\* changes or removes the binding of an id the registry has issued
\* (id < next_id).
C7_FatalAfterInsert ==
    /\ [][(last'.op = "set_id_memory" /\ last'.old # None) =>
            (fatal' /\ get(alloc_map', last'.arg[1]) = Memory(Tail(last'.arg)))]_vars
    /\ [][~fatal' =>
            \A id \in DOMAIN alloc_map.id_to_type :
                id < alloc_map.next_id =>
                    get(alloc_map', id) = alloc_map.id_to_type[id]]_vars

\* set_id_memory was called on an id interned for a function: the call was
\* fatal, and the forward map now binds the id to the new memory while the
\* interner still maps the function to it.
C7_Witness ==
    /\ fatal
    /\ last.op = "set_id_memory"
    /\ last.old = Function(3)
    /\ get(alloc_map, last.arg[1]) = Memory(Tail(last.arg))
    /\ alloc_map.type_interner[Function(3)] = last.arg[1]

\* C8: set_id_same_memory(id, m) on an id already bound to Memory(m) (by an
\* earlier set_id_same_memory(id, m)) is not an error and leaves the
\* registry as it was: the binding, next_id and the interner are unchanged.
C8_SameMemoryIdempotent ==
    [][(last'.op = "set_id_same_memory" /\ last'.old = Memory(Tail(last'.arg))) =>
          (~fatal' /\ alloc_map' = alloc_map)]_vars

\* The last call was set_id_same_memory on a reserved id that already held
\* the very same memory, and it did not fail.
C8_Witness ==
    /\ ~fatal
    /\ last.op = "set_id_same_memory"
    /\ last.old = Memory(Tail(last.arg))
    /\ last.arg[1] < alloc_map.next_id
    /\ \E x \in issued : x[1] = "reserve" /\ x[3] = last.arg[1]

\* The calls of the log that consume an id: reserve, allocate, and the first
\* create_fn_alloc / intern_static of each content.
Consuming(i) ==
    \/ log[i].op \in {"reserve", "allocate"}
    \/ /\ log[i].op \in InternOps
       /\ \A j \in 1..(i - 1) : ~(log[j].op = log[i].op /\ log[j].arg = log[i].arg)

ConsumedBefore(i) == Cardinality({j \in 1..(i - 1) : Consuming(j)})

\* What the logged calls bound id to; None when none of them bound it.
BoundByLog(id) ==
    IF \E i \in 1..Len(log) : log[i].ret = <<id>> /\ log[i].op # "reserve"
    THEN LET i == CHOOSE i \in 1..Len(log) : log[i].ret = <<id>> /\ log[i].op # "reserve"
         IN  CASE log[i].op = "allocate" -> Memory(log[i].arg)
               [] log[i].op = "create_fn_alloc" -> Function(log[i].arg[1])
               [] log[i].op = "intern_static" -> Static(log[i].arg[1])
    ELSE None

\* C9: on a fresh registry ids are issued consecutively from 0 in the order
\* of the id-consuming calls; a repeated intern of interned content returns
\* the id of the first and consumes none; next_id counts the consuming
\* calls; get returns the binding of a bound id and not-found otherwise.
C9_ConsecutiveIds ==
    /\ ~fatal
    /\ \A i \in 1..Len(log) :
          IF Consuming(i)
          THEN log[i].ret = <<ConsumedBefore(i)>>
          ELSE \E j \in 1..(i - 1) :
                  /\ Consuming(j)
                  /\ log[j].op = log[i].op /\ log[j].arg = log[i].arg
                  /\ log[i].ret = log[j].ret
    /\ alloc_map.next_id = ConsumedBefore(Len(log) + 1)
    /\ last.op = "get" => last.got = BoundByLog(last.arg[1])

\* The scenario of the specification: intern_static(7) = 0, again = 0,
\* allocate(blob) = 1, create_fn_alloc(3) = 2, get(1) = Memory(blob) and
\* get(5) = not found.
C9_Witness ==
    /\ Len(log) = 4
    /\ [i \in 1..4 |-> <<log[i].op, log[i].arg, log[i].ret>>] =
          << <<"intern_static", <<7>>, <<0>>>>,
             <<"intern_static", <<7>>, <<0>>>>,
             <<"allocate", <<10>>, <<1>>>>,
             <<"create_fn_alloc", <<3>>, <<2>>>> >>
    /\ get(alloc_map, 1) = Memory(<<10>>)
    /\ last.op = "get" /\ last.arg = <<5>> /\ last.got = None

(***************************************************************************)
(* Claims about the session tokens.                                        *)
(***************************************************************************)
NonZero(x) == x # U32(0, 0)

\* C10, as claimed: every session token is nonzero and fits in 31 bits,
\* 1 <= token < 2^31.
C10_TokenFits31Bits ==
    \A i \in 1..Len(tokens) : NonZero(tokens[i]) /\ tokens[i].hi < 2^15

\* C10, amended: new_decoding_session never panics and every session token
\* is nonzero and at most 2^31, 1 <= token <= 2^31; the token is 2^31 when
\* the low 31 bits of the counter are all ones.
C10_TokenNonZeroUpTo2p31 ==
    /\ ~fatal
    /\ \A i \in 1..Len(tokens) :
          /\ NonZero(tokens[i])
          /\ tokens[i].hi < 2^15 \/ tokens[i] = U32(2^15, 0)

\* The counter went through 0xFFFFFFFF, whose token is 2^31, and wrapped to
\* 0, whose token is 1.
C10_Witness ==
    /\ ~fatal
    /\ \E i \in 1..(Len(tokens) - 1) :
          tokens[i] = U32(2^15, 0) /\ tokens[i + 1] = U32(0, 1)
    /\ DECODER_SESSION_ID = U32(0, 1)

(***************************************************************************)
(* Claims about the numeric helpers.                                       *)
(***************************************************************************)
\* C11: for every width w in 1..128 and every value v below 2^w,
\* truncate(sign_extend(v, w), w) = v; sign_extend copies bit w-1 into every
\* bit above it and truncate clears every bit at a position >= w.
C11_RoundTrip ==
    LET w == input.size
        above == {i \in BitPos : i >= w}
    IN  /\ output.pc # "start" =>
              output.extended =
                  input.value \cup (IF (w - 1) \in input.value THEN above ELSE {})
        /\ output.pc = "truncated" =>
              /\ output.value = output.extended \ above
              /\ output.value = input.value

\* A negative 8-bit value: its sign bit was copied up to bit 127 and
\* truncate has cleared the copies again.
C11_Witness ==
    /\ output.pc = "truncated"
    /\ input.size = 8
    /\ input.value = {0, 7}
    /\ output.extended = {0} \cup {i \in BitPos : i >= 7}
    /\ output.value = {0, 7}

(***************************************************************************)
(* Claims about Lock.                                                      *)
(***************************************************************************)
\* C12: a Lock is never ReadLock with an empty holder list: no construction
\* path, decoding a Lock value included, produces ReadLock([]).
C12_NoEmptyReadLock == output.lock # <<ReadLock(<<>>)>>

\* Decoding also produces read locks that have a holder.
C12_HeldReadLock ==
    /\ output.pc = "Ok"
    /\ output.lock = <<ReadLock(<<DynamicLifetime(1, <<3>>)>>)>>

(***************************************************************************)
(* Claims about the decoder's locks.                                       *)
(***************************************************************************)
SlotLocksOf(t) == {l \in held[t] : l[1] = "decoding_state"}

\* C13: a session holds a slot's lock only while it inspects and transitions
\* that slot's state: none while it decodes a body, makes a nested call or
\* calls the registry for the body, so never two at once; no lock at all,
\* the registry's included, is held while a slot's lock is being acquired;
\* and no lock has two holders.
C13_LockDiscipline ==
    \A t \in Threads :
        /\ Cardinality(SlotLocksOf(t)) <= 1
        /\ SlotLocksOf(t) # {} =>
              /\ at[t].pc \in {"match", "lock_alloc_map", "reserve", "store"}
              /\ SlotLocksOf(t) = {SlotLock(at[t].idx)}
        /\ at[t].pc \in {"out", "lock_entry", "data", "with_lock"} =>
              SlotLocksOf(t) = {}
        /\ at[t].pc \in {"lock_entry", "with_lock"} => held[t] = {}
        /\ \A u \in Threads \ {t} : held[t] \cap held[u] = {}

\* Thread 1, inside the body of slot 0, reserves the id of slot 1 under that
\* slot's lock and the registry's, holding no other slot's lock; thread 2
\* waits for the lock of slot 1.
C13_Witness ==
    /\ Len(stack[1]) = 1
    /\ stack[1][1].idx = 0
    /\ at[1] = At("reserve", 1)
    /\ held[1] = {SlotLock(1), AllocMapLock}
    /\ at[2] = At("lock_entry", 1)
    /\ held[2] = {}

\* Thread t is inside a decode_alloc_id call.
Busy(t) == stack[t] # <<>> \/ at[t] # Outside

\* No slot is entered twice by a thread, so its stack is no deeper than the
\* number of slots.
BoundedRecursion ==
    \A t \in Threads :
        /\ \A i, j \in 1..Len(stack[t]) : stack[t][i].idx = stack[t][j].idx => i = j
        /\ Len(stack[t]) <= Cardinality(Slots)

\* C14: concurrent sessions with distinct tokens decode a stream whose
\* Memory slots reference each other; under fair scheduling and without
\* stream-format errors every decode_alloc_id call returns (so no deadlock
\* is reached), no session re-enters a slot it is inside, the recursion
\* depth is at most the number of slots, and no fatal error is raised.
C14_Terminates ==
    /\ [](BoundedRecursion /\ ~fatal)
    /\ \A t \in Threads : Busy(t) ~> ~Busy(t)

\* Both threads are inside the cycle at once: thread 1 entered slot 0 then
\* slot 1 and its call back on slot 0 has returned the reserved id; thread 2
\* entered slot 1 then slot 0.
C14_Witness ==
    /\ Len(stack[1]) = 2
    /\ stack[1][1].idx = 0
    /\ stack[1][2].idx = 1
    /\ stack[1][2].relocs = decoding_state[0].id
    /\ Len(stack[2]) = 2
    /\ stack[2][1].idx = 1
    /\ stack[2][2].idx = 0

(***************************************************************************)
(* Claims about Function and Static slots.                                 *)
(***************************************************************************)
\* The frames of thread t on slots whose record is not an Alloc.
NonAllocFrames(t) == {f \in Frames(t) : Stream[f.idx].kind # "Alloc"}

\* The AllocType the body of a Fn or Static record interns.
InternedType(idx) ==
    IF Stream[idx].kind = "Fn"
    THEN Function(Stream[idx].body[1])
    ELSE Static(Stream[idx].body[1])

\* C15 (as claimed): the body of a Function/Static slot is decoded only by
\* the session that claimed the slot from Empty, the first of its list.
C15_OnlyClaimantDecodes ==
    \A t \in Threads : \A f \in NonAllocFrames(t) :
        decoding_state[f.idx].tag = "InProgressNonAlloc" =>
            decoding_state[f.idx].sessions[1] = session[t]

\* C15 (amended): every session that enters a Function/Static slot that is
\* not Done, claimant or not, is listed in the slot, gets no id from the
\* state check, and decodes the body and calls create_fn_alloc or
\* intern_static itself; interning gives each of them the id the slot ends
\* up Done with.
C15_EverySessionDecodes ==
    \A t \in Threads : \A f \in NonAllocFrames(t) :
        /\ f.alloc_id = <<>>
        /\ decoding_state[f.idx].tag \in {"InProgressNonAlloc", "Done"}
        /\ decoding_state[f.idx].tag = "InProgressNonAlloc" =>
              contains(decoding_state[f.idx].sessions, session[t])
        /\ f.pc = "store" =>
              /\ InternedType(f.idx) \in DOMAIN alloc_map.type_interner
              /\ f.id = <<alloc_map.type_interner[InternedType(f.idx)]>>
              /\ decoding_state[f.idx].tag = "Done" => decoding_state[f.idx].id = f.id

\* Thread 1 claimed the Fn slot and is still reading its body; thread 2, of
\* another session, found it InProgressNonAlloc, was appended, and has
\* already called create_fn_alloc itself.
C15_Witness ==
    /\ session[1] # session[2]
    /\ decoding_state[2] = InProgressNonAlloc(<<session[1], session[2]>>)
    /\ Len(stack[1]) = 1
    /\ stack[1][1].idx = 2
    /\ stack[1][1].pc = "body"
    /\ Len(stack[2]) = 1
    /\ stack[2][1].idx = 2
    /\ stack[2][1].pc = "store"
    /\ get(alloc_map, stack[2][1].id[1]) = Function(3)

\* list is the beginning of longer.
IsPrefix(list, longer) ==
    /\ Len(list) <= Len(longer)
    /\ \A i \in 1..Len(list) : list[i] = longer[i]

NonAllocInProgress == {idx \in Slots : decoding_state[idx].tag = "InProgressNonAlloc"}

\* What lines 189-249 do when session s calls on slot idx in this state.
Arrival(idx, s) == check_state(decoding_state[idx], Stream[idx].kind, s, alloc_map)

\* C16: a call with token s on a slot InProgressNonAlloc(sessions) ends in a
\* fatal error that leaves the slot and the registry as they were when s is
\* in sessions; otherwise s is appended and no earlier member is removed.
\* The list of a slot only ever grows at its end, and a step that raises
\* the fatal error changes neither the table nor the registry.
C16_ReentryFatal ==
    /\ [](\A idx \in NonAllocInProgress : \A t \in Threads :
            LET r == Arrival(idx, session[t])
                old == decoding_state[idx].sessions
            IN  IF contains(old, session[t])
                THEN /\ r.out = "bug"
                     /\ r.entry = decoding_state[idx]
                     /\ r.am = alloc_map
                ELSE /\ r.out = "decode"
                     /\ r.entry.tag = "InProgressNonAlloc"
                     /\ r.entry.sessions = Append(old, session[t])
                     /\ r.am = alloc_map)
    /\ [][(fatal' /\ ~fatal) =>
             /\ decoding_state' = decoding_state
             /\ alloc_map' = alloc_map
             /\ stack' = stack]_vars
    /\ [][\A idx \in NonAllocInProgress :
             decoding_state'[idx].tag = "InProgressNonAlloc" =>
                 IsPrefix(decoding_state[idx].sessions,
                          decoding_state'[idx].sessions)]_vars

\* Two sessions entered the Fn slot, the second was appended after the
\* first; the first was unwound by a stream error and called on the slot
\* again: fatal, the list as it was.
C16_Witness ==
    /\ fatal
    /\ Len(tokens) = 2
    /\ decoding_state[2] = InProgressNonAlloc(<<tokens[1], tokens[2]>>)
    /\ failed = {tokens[1]}
    /\ \E t \in Threads : session[t] = tokens[1] /\ stack[t] = <<>>

(***************************************************************************)
(* Claims about decodes after a stream-format error.                       *)
(***************************************************************************)
\* Thread t decodes with a session that no stream error has unwound.
Sound(t) == session[t] # NoSession /\ session[t] \notin failed

\* The ids a top-level call of thread t can return from this state: at once
\* from the state check of some slot, or from the store of its last frame.
TopLevelIds(t) ==
    IF stack[t] = <<>>
    THEN UNION {IF Arrival(idx, session[t]).out = "return"
                THEN {Arrival(idx, session[t]).alloc_id[1]} ELSE {}
                    : idx \in Slots}
    ELSE IF Len(stack[t]) = 1 /\ stack[t][1].pc = "store"
         THEN {stack[t][1].id[1]}
         ELSE {}

\* The slots thread t can call decode_alloc_id on from this state.
NextCalls(t) ==
    IF stack[t] = <<>> THEN Slots
    ELSE LET f == Top(stack[t])
         IN  IF f.pc = "body" /\ Len(f.relocs) < Len(Stream[f.idx].refs)
             THEN {Stream[f.idx].refs[Len(f.relocs) + 1]}
             ELSE {}

\* No step thread t can take from this state raises a fatal error.
NoFatalStep(t) ==
    /\ \A idx \in NextCalls(t) : Arrival(idx, session[t]).out # "bug"
    /\ \A f \in Frames(t) :
          (f.pc = "body" /\ Len(f.relocs) = Len(Stream[f.idx].refs)) =>
              ~decode_data(Stream[f.idx].kind, f.alloc_id, Stream[f.idx].body,
                           f.relocs, alloc_map).bug

\* C17: after a stream-format error has left slots InProgress or
\* InProgressNonAlloc, a decode of any slot by a session that no error has
\* unwound raises no fatal error, returns from its top-level call only ids
\* that are bound in the registry, leaves every slot with one id, and ends
\* (in Ok, or in Err if a stream error hits it too): unless a fatal error
\* stops the process, every thread is outside decode_alloc_id again and
\* again.
C17_SafeAfterError ==
    /\ [](\A t \in Threads : Sound(t) =>
            /\ NoFatalStep(t)
            /\ \A id \in TopLevelIds(t) : get(alloc_map, id) # None)
    /\ [](\A idx \in Slots : Cardinality(returned[idx]) <= 1)
    /\ []<>(fatal \/ \A t \in Threads : stack[t] = <<>>)

\* Thread 1 alone: its first session was unwound by a stream error inside
\* the decode of slot 0; with a new session its second call decoded slot 0,
\* and with it every slot the first had left in progress, to a bound id.
C17_Witness ==
    /\ Len(tokens) = 2
    /\ failed = {tokens[1]}
    /\ session = [t \in Threads |-> IF t = 1 THEN tokens[2] ELSE NoSession]
    /\ calls = 2
    /\ result[1].tag = "Ok"
    /\ result[1].idx = 0
    /\ \A idx \in Slots : decoding_state[idx].tag = "Done"
    /\ get(alloc_map, result[1].id[1]).tag = "Memory"
    /\ ~fatal

(***************************************************************************)
(* Claims about Done slots and returned ids.                               *)
(***************************************************************************)
\* The tag of the AllocType a record of this kind is bound to.
VariantOf(alloc_kind) ==
    CASE alloc_kind = "Alloc" -> "Memory"
      [] alloc_kind = "Fn" -> "Function"
      [] alloc_kind = "Static" -> "Static"

\* C18: a slot that is Done(id) has id bound in the registry to the variant
\* of the slot's record: Memory for Alloc, Function for Fn, Static for
\* Static (the function or item of the record); never a reserved, unbound id.
C18_DoneIsBound ==
    \A idx \in Slots :
        decoding_state[idx].tag = "Done" =>
            \A id \in IdSet(idx) :
                /\ get(alloc_map, id).tag = VariantOf(Stream[idx].kind)
                /\ Stream[idx].kind # "Alloc" => get(alloc_map, id) = InternedType(idx)

\* Every slot of the stream is Done, each with its own bound id.
C18_Witness ==
    /\ \A idx \in Slots : decoding_state[idx].tag = "Done"
    /\ get(alloc_map, decoding_state[0].id[1]).tag = "Memory"
    /\ get(alloc_map, decoding_state[1].id[1]).tag = "Memory"
    /\ get(alloc_map, decoding_state[2].id[1]) = Function(3)
    /\ get(alloc_map, decoding_state[3].id[1]) = Static(7)
    /\ Cardinality({decoding_state[idx].id : idx \in Slots}) = 4

\* C19: the id a top-level decode_alloc_id call has returned is bound in the
\* registry; only a nested, cycle-closing call returns a reserved id that
\* is not bound yet.
C19_TopLevelBound ==
    \A t \in Threads :
        result[t].tag = "Ok" => get(alloc_map, result[t].id[1]) # None

\* A nested call did close a cycle with a reserved, unbound id: thread 1,
\* inside slot 0 and then slot 1, got the id of slot 0 back.
C19_CycleClosed ==
    /\ Len(stack[1]) = 2
    /\ stack[1][1].idx = 0
    /\ stack[1][2].idx = 1
    /\ stack[1][2].relocs = decoding_state[0].id
    /\ decoding_state[0].tag = "InProgress"
    /\ get(alloc_map, decoding_state[0].id[1]) = None

(***************************************************************************)
(* Claims about the registry's maps.                                       *)
(***************************************************************************)
\* C20: after any sequence of registry calls in which the set_id_* calls
\* were only given ids that reserve had returned: every id bound in
\* id_to_type and every id in type_interner is below next_id; no key of
\* type_interner is a Memory; and each (content, id) of type_interner has id
\* bound to exactly that content in id_to_type, distinct contents having
\* distinct ids.
C20_RegistryConsistent ==
    ~unreserved =>
        LET interned == DOMAIN alloc_map.type_interner
        IN  /\ \A id \in DOMAIN alloc_map.id_to_type : id < alloc_map.next_id
            /\ \A k \in interned :
                  /\ alloc_map.type_interner[k] < alloc_map.next_id
                  /\ k.tag # "Memory"
                  /\ get(alloc_map, alloc_map.type_interner[k]) = k
            /\ \A k1, k2 \in interned :
                  alloc_map.type_interner[k1] = alloc_map.type_interner[k2] => k1 = k2

\* A reserved id has just been bound by set_id_memory next to an interned
\* function and an allocated memory.
C20_Witness ==
    /\ ~unreserved
    /\ ~fatal
    /\ last.op = "set_id_memory"
    /\ get(alloc_map, last.arg[1]).tag = "Memory"
    /\ Function(3) \in DOMAIN alloc_map.type_interner
    /\ \E id \in DOMAIN alloc_map.id_to_type :
          /\ id # last.arg[1]
          /\ alloc_map.id_to_type[id].tag = "Memory"

====
